---- MODULE Spec2Model ----
(***************************************************************************)
(* State-machine model of the log-structured key/value store of           *)
(* src/src/kv.rs: the directory of generation files, one KvStore instance, *)
(* and the operations open, set_v2, get_v2, remove_v2 and compact.         *)
(*                                                                         *)
(* A log file is a sequence of framed records.  A framed record on disk is *)
(*   [prefix |-> value of the 4-byte length prefix,                        *)
(*    cmd    |-> the KvsCommand the body encodes,                          *)
(*    nbytes |-> how many bytes of the frame are in the file]              *)
(* so that a frame cut short by a stopped process is a record with         *)
(* nbytes < 4 + prefix.  The wall-clock timestamp of a record is not       *)
(* modelled: nothing reads it.                                             *)
(***************************************************************************)
EXTENDS Integers, Sequences, FiniteSets, TLC

\* ---------------------------------------------------------------- bounds
MaxKey == 2
MaxSeq == 3
MaxOpen == 2
MaxFault == 1
MaxSeqLive == 4
MaxReopen == 1
HalfLen == 524288
BigLen == 10485760

\* ------------------------------------------------------ program constants
COMPACTION_THRESHOLD == 1048576
CURRENT_SCHEMA_VERSION == 1
PrefixLen == 4
EncodedHeaderLen == 16

Keys == 1..MaxKey
Values == {[ch |-> "x", n |-> 1], [ch |-> "y", n |-> BigLen]}
\* The key recorded for a call that takes no key.
NoKey == CHOOSE k \in 0..MaxKey : k \notin Keys

VARIABLES
    disk,              \* generation -> sequence of framed records (the directory)
    opened,            \* TRUE while a KvStore instance exists
    readers,           \* KvStore.readers: the generations that have a reader
    writer,            \* KvStore.writer: [gen |-> file it appends to, pos |-> its pos]
    current_gen,       \* KvStore.current_gen
    index,             \* KvStore.index: key -> CommandPos
    uncompacted,       \* KvStore.uncompacted
    current_sequence,  \* KvStore.current_sequence (always Some after open)
    ret,               \* the last call and what it returned
    kv,                \* history: key -> value of the last successful set, or "None"
    pre_index,         \* history: the index when the last call began
    cpre,              \* history: keys and get-view right before the last call's compaction
    closed,            \* history: index and get-view when the store was last dropped,
                       \* and whether that instance wrote nothing (clean)
    appended,          \* history: sequence numbers appended by this instance, in order
    open_seq,          \* history: highest sequence number found in the logs at open
    opens,             \* history: how many times open was called
    faults             \* history: how many calls met an I/O failure

store_vars == <<opened, readers, writer, current_gen, index, uncompacted, current_sequence>>
hist_vars == <<ret, kv, pre_index, cpre, closed, appended, open_seq, opens, faults>>
vars == <<disk, opened, readers, writer, current_gen, index, uncompacted, current_sequence,
          ret, kv, pre_index, cpre, closed, appended, open_seq, opens, faults>>

\* ------------------------------------------------------------- utilities
\* Mutant of Max: the later value wins.
MaxTakesLater(a, b) == b

Max(a, b) == IF a >= b THEN a ELSE b

MinOf(S) == CHOOSE x \in S : \A y \in S : x <= y

RECURSIVE SortedSeq(_)
SortedSeq(S) == IF S = {} THEN <<>> ELSE <<MinOf(S)>> \o SortedSeq(S \ {MinOf(S)})

EmptyMap == [k \in {} |-> 0]

MapPut(f, k, v) == [x \in DOMAIN f \cup {k} |-> IF x = k THEN v ELSE f[x]]

MapDel(f, k) == [x \in DOMAIN f \ {k} |-> f[x]]

\* F applied to the value of e: a local that is computed once and then used,
\* as a Rust `let` binding is.
Let(e, F(_)) == CHOOSE y \in {F(x) : x \in {e}} : TRUE

\* ------------------------------------------------------------ record codec
key_len(key) == 4

value_len(value) == value.n

CharCode(ch) == IF ch = "x" THEN 120 ELSE IF ch = "y" THEN 121 ELSE 122

\* The bytes the checksum covers: the key, then (for Set) the value.
get_fields_for_checksum(command) ==
    IF command.type = "Set"
    THEN <<command.key, CharCode(command.value.ch), command.value.n>>
    ELSE <<command.key>>

RECURSIVE Crc(_, _)
Crc(h, fields) ==
    IF fields = <<>> THEN h ELSE Crc((h * 31 + Head(fields)) % 65521, Tail(fields))

calculate_checksum(command) == Crc(17, get_fields_for_checksum(command))

KvsCommand_set(key, value, sequence) ==
    LET command == [type |-> "Set", key |-> key, value |-> value]
    IN  [sequence_number |-> sequence,
         checksum |-> calculate_checksum(command),
         version |-> CURRENT_SCHEMA_VERSION,
         command |-> command]

KvsCommand_remove(key, sequence) ==
    LET command == [type |-> "Remove", key |-> key]
    IN  [sequence_number |-> sequence,
         checksum |-> calculate_checksum(command),
         version |-> CURRENT_SCHEMA_VERSION,
         command |-> command]

\* KvsCommand::decode(&msg_bytes[..]) succeeds: the body of the item is the
\* encoding of a command ("Garbled" marks a body that is none).
decode(item) == item.cmd.command.type # "Garbled"

\* Mutant of verify_checksum: every checksum is accepted.
verify_checksum_skipped(cmd) == TRUE

verify_checksum(cmd) ==
    IF cmd.command.type = "None" THEN FALSE
    ELSE cmd.checksum = calculate_checksum(cmd.command)

\* Length of the encoded body of a command.
encoded_len(cmd) ==
    EncodedHeaderLen
    + (IF cmd.command.type = "None" THEN 0 ELSE key_len(cmd.command.key))
    + (IF cmd.command.type = "Set" THEN value_len(cmd.command.value) ELSE 0)

\* `n as u32`
as_u32(n) == (n % 65536) + 65536 * ((n \div 65536) % 65536)

\* The frame set_v2 and remove_v2 write: the prefix, then the body.
Frame(cmd) ==
    [prefix |-> as_u32(encoded_len(cmd)),
     cmd |-> cmd,
     nbytes |-> PrefixLen + encoded_len(cmd)]

\* --------------------------------------------------------------- log files
RECURSIVE FileSize(_)
FileSize(file) == IF file = <<>> THEN 0 ELSE Head(file).nbytes + FileSize(Tail(file))

Offset(file, i) == FileSize(SubSeq(file, 1, i - 1))

\* The record that starts at byte pos of the file, 0 if none does.
RecordAt(file, pos) ==
    LET S == {i \in 1..Len(file) : Offset(file, i) = pos}
    IN  IF S = {} THEN 0 ELSE MinOf(S)

\* seek to pos, read the prefix, read the body it announces.
ReadFrame(file, pos) ==
    LET i == RecordAt(file, pos)
    IN  IF i = 0 THEN [res |-> IF pos >= FileSize(file) THEN "IoError" ELSE "Deserialize"]
        ELSE LET it == file[i]
                 last == (i = Len(file))
             IN  IF it.nbytes < PrefixLen \/ it.nbytes - PrefixLen < it.prefix
                 THEN [res |-> IF last THEN "IoError" ELSE "Deserialize"]
                 ELSE IF it.nbytes - PrefixLen > it.prefix
                 THEN [res |-> "Deserialize"]
                 ELSE [res |-> "Ok", item |-> it]


\* Mutant of load_command_pos: len leaves the length prefix out.
load_command_pos_body_only(gen, start_pos, pos) ==
    [gen |-> gen, pos |-> start_pos, len |-> pos - start_pos - PrefixLen]

\* ----------------------------------------------------------------- replay
\* The position descriptor replay gives the record read from start_pos to pos.
load_command_pos(gen, start_pos, pos) ==
    [gen |-> gen, pos |-> start_pos, len |-> pos - start_pos]


\* Mutant of load_remove: replay ignores Remove records.
load_remove_ignored(idx, key) == idx

\* Replay of a Remove record: index.remove(&key).
load_remove(idx, key) == MapDel(idx, key)

RECURSIVE load_loop(_, _, _, _, _, _, _)
load_loop(gen, file, i, pos, idx, unc, highest) ==
    IF i > Len(file)
    THEN [res |-> "Ok", index |-> idx, uncompacted |-> unc, highest_sequence |-> highest]
    ELSE LET it == file[i]
             last == (i = Len(file))
         IN  IF it.nbytes < PrefixLen
             THEN IF last
                  THEN [res |-> "Ok", index |-> idx, uncompacted |-> unc,
                        highest_sequence |-> highest]
                  ELSE [res |-> "Deserialize"]
             ELSE IF it.nbytes - PrefixLen < it.prefix
             THEN [res |-> IF last THEN "IoError" ELSE "Deserialize"]
             ELSE IF it.nbytes - PrefixLen > it.prefix
             THEN [res |-> "Deserialize"]
             ELSE IF ~decode(it)
             THEN [res |-> "Deserialize"]
             ELSE IF ~verify_checksum(it.cmd)
             THEN [res |-> "CorruptedData"]
             ELSE IF it.cmd.command.type = "None"
             THEN [res |-> "UnexpectedCommandType"]
             ELSE LET end == pos + PrefixLen + it.prefix
                      hi == Max(highest, it.cmd.sequence_number)
                      key == it.cmd.command.key
                  IN  IF it.cmd.command.type = "Set"
                      THEN load_loop(gen, file, i + 1, end,
                               MapPut(idx, key, load_command_pos(gen, pos, end)),
                               unc + (IF key \in DOMAIN idx THEN idx[key].len ELSE 0),
                               hi)
                      ELSE load_loop(gen, file, i + 1, end,
                               load_remove(idx, key),
                               unc + (IF key \in DOMAIN idx THEN idx[key].len ELSE 0)
                                   + (end - pos),
                               hi)

\* Mutant of load_v2: the end of file met at the first prefix is an error.
load_v2_eof_is_error(gen, file, idx) ==
    IF file = <<>> THEN [res |-> "IoError"] ELSE load_loop(gen, file, 1, 0, idx, 0, 0)

load_v2(gen, file, idx) == load_loop(gen, file, 1, 0, idx, 0, 0)

sorted_gen_list(d) == SortedSeq(DOMAIN d)

\* Create (or open for append) the file of a generation and register a reader.
new_log_file(st, gen) ==
    [st EXCEPT !.disk = IF gen \in DOMAIN st.disk THEN st.disk ELSE MapPut(st.disk, gen, <<>>),
               !.readers = st.readers \cup {gen},
               !.writer = [gen |-> gen, pos |-> 0]]

RECURSIVE open_loop(_, _, _, _)
open_loop(d, gen_list, i, acc) ==
    IF i > Len(gen_list) THEN acc
    ELSE LET gen == gen_list[i]
             r == load_v2(gen, d[gen], acc.index)
         IN  IF r.res # "Ok" THEN [res |-> r.res]
             ELSE open_loop(d, gen_list, i + 1,
                      [res |-> "Ok",
                       index |-> r.index,
                       uncompacted |-> acc.uncompacted + r.uncompacted,
                       readers |-> acc.readers \cup {gen},
                       highest_seq |-> Max(acc.highest_seq, r.highest_sequence)])

\* Mutant of next_gen: one more than the lowest generation.
next_gen_after_first(gen_list) == (IF gen_list = <<>> THEN 0 ELSE gen_list[1]) + 1

\* gen_list.last().unwrap_or(&0) + 1
next_gen(gen_list) == (IF gen_list = <<>> THEN 0 ELSE gen_list[Len(gen_list)]) + 1

\* KvStore::open on directory d: [res, st].
open(d) ==
    LET gen_list == sorted_gen_list(d)
        r == open_loop(d, gen_list, 1,
                 [res |-> "Ok", index |-> EmptyMap, uncompacted |-> 0, readers |-> {},
                  highest_seq |-> 0])
    IN  IF r.res # "Ok" THEN [res |-> r.res]
        ELSE LET current == next_gen(gen_list)
             IN  [res |-> "Ok",
                  st |-> new_log_file(
                      [disk |-> d, readers |-> r.readers, writer |-> [gen |-> 0, pos |-> 0],
                       current_gen |-> current, index |-> r.index,
                       uncompacted |-> r.uncompacted, current_sequence |-> r.highest_seq],
                      current)]

\* ------------------------------------------------------------------- get
get_v2(st, key) ==
    IF key \notin DOMAIN st.index THEN [res |-> "None"]
    ELSE LET cmd_pos == st.index[key]
         IN  IF cmd_pos.gen \notin st.readers THEN [res |-> "panic"]
             ELSE LET r == ReadFrame(st.disk[cmd_pos.gen], cmd_pos.pos)
                  IN  IF r.res # "Ok" THEN [res |-> r.res]
                      ELSE IF ~decode(r.item) THEN [res |-> "Deserialize"]
                      ELSE IF ~verify_checksum(r.item.cmd) THEN [res |-> "CorruptedData"]
                      ELSE IF r.item.cmd.command.type = "Set"
                      THEN [res |-> "Some", val |-> r.item.cmd.command.value]
                      ELSE [res |-> "UnexpectedCommandType"]


\* Mutant of get_v2_state: a key whose record cannot be read is dropped from
\* the index.
get_v2_state_forgets_unreadable(st, key) ==
    IF get_v2(st, key).res \in {"Some", "None"} THEN st
    ELSE [st EXCEPT !.index = MapDel(st.index, key)]

\* The store after get_v2(key): the call seeks and reads through the reader
\* of the entry's generation and assigns no field of the store, whatever it
\* returns (the position of a reader is not kept: every read seeks first).
get_v2_state(st, key) == st

\* What get_v2 returns for every key.
View(st) == [k \in Keys |-> get_v2(st, k)]

\* -------------------------------------------------------------- compaction
\* Where a run of compact ends.  "done": it returns Ok.  Otherwise it ends at
\* that step, by an I/O error or because the process stops there:
\*   "newlog_cur"  in new_log_file(current_gen); created: the file exists already
\*   "newlog_cg"   in new_log_file(compaction_gen); created likewise
\*   "copy"        in the copy loop, after n whole entries
\*   "flush"       in compaction_writer.flush()
\*   "unlink"      in the removal loop: the files of `gone` are unlinked, and
\*                 remove_file fails on failgen (its reader already dropped)
\* m is the number of write_all calls of the copy loop whose bytes have left
\* the compaction writer's buffer for the file when the run ends (the calls
\* alternate: a prefix, a body, a prefix, ...).
Done == [at |-> "done", created |-> TRUE, n |-> 0, m |-> 0, gone |-> {}, failgen |-> 0]

\* The bytes of the first m writes of the frames in file.
Flushed(file, m) ==
    LET whole == m \div 2
    IN  IF whole >= Len(file) THEN file
        ELSE SubSeq(file, 1, whole)
             \o (IF m % 2 = 1 THEN <<[file[whole + 1] EXCEPT !.nbytes = PrefixLen]>> ELSE <<>>)

\* Mutant of copy_entry: the retargeted entry's len leaves the prefix out.
copy_entry_len_without_prefix(st, compaction_gen, key, acc) ==
    LET cmd_pos == acc.index[key]
    IN  IF cmd_pos.gen \notin st.readers THEN [acc EXCEPT !.res = "panic"]
        ELSE LET r == ReadFrame(st.disk[cmd_pos.gen], cmd_pos.pos)
             IN  IF r.res # "Ok" THEN [acc EXCEPT !.res = "IoError"]
                 ELSE LET msg_len == r.item.prefix
                      IN  [res |-> "Ok",
                           index |-> [acc.index EXCEPT ![key] =
                                         [gen |-> compaction_gen, pos |-> acc.new_pos,
                                          len |-> msg_len]],
                           file |-> Append(acc.file, r.item),
                           new_pos |-> acc.new_pos + PrefixLen + msg_len]

\* One entry of the copy loop: read the frame the entry addresses, write it
\* to the compaction file, retarget the entry.
copy_entry(st, compaction_gen, key, acc) ==
    LET cmd_pos == acc.index[key]
    IN  IF cmd_pos.gen \notin st.readers THEN [acc EXCEPT !.res = "panic"]
        ELSE LET r == ReadFrame(st.disk[cmd_pos.gen], cmd_pos.pos)
             IN  IF r.res # "Ok" THEN [acc EXCEPT !.res = "IoError"]
                 ELSE LET msg_len == r.item.prefix
                      IN  [res |-> "Ok",
                           index |-> [acc.index EXCEPT ![key] =
                                         [gen |-> compaction_gen, pos |-> acc.new_pos,
                                          len |-> PrefixLen + msg_len]],
                           file |-> Append(acc.file, r.item),
                           new_pos |-> acc.new_pos + PrefixLen + msg_len]

RECURSIVE copy_loop(_, _, _, _, _, _)
copy_loop(st, compaction_gen, ks, i, n, acc) ==
    IF i > n \/ i > Len(ks) \/ acc.res # "Ok" THEN acc
    ELSE Let(copy_entry(st, compaction_gen, ks[i], acc),
             LAMBDA next : copy_loop(st, compaction_gen, ks, i + 1, n, next))


\* Mutant of stale_gens_of: the compaction file is retired too.
stale_gens_of_inclusive(rs, compaction_gen) == {gen \in rs : gen <= compaction_gen}

\* The generations compact retires.
stale_gens_of(rs, compaction_gen) == {gen \in rs : gen < compaction_gen}

CreateFile(d, gen) == IF gen \in DOMAIN d THEN d ELSE MapPut(d, gen, <<>>)

RemoveFiles(d, gens) == [g \in DOMAIN d \ gens |-> d[g]]

\* Mutant of values_mut: the entries are visited in descending key order.
values_mut_descending(idx) ==
    LET ks == SortedSeq(DOMAIN idx)
    IN  [i \in 1..Len(ks) |-> ks[Len(ks) + 1 - i]]

\* self.index.values_mut() of a BTreeMap: the keys of the entries in the
\* order they are visited, ascending.
values_mut(idx) == SortedSeq(DOMAIN idx)

\* KvStore::compact, run up to `stop`: [res, st].
compact_run(st, stop) ==
    LET compaction_gen == st.current_gen + 1
        s1 == [st EXCEPT !.current_gen = st.current_gen + 2]
    IN  IF stop.at = "newlog_cur"
        THEN [res |-> "IoError",
              st |-> [s1 EXCEPT !.disk = IF stop.created THEN CreateFile(s1.disk, s1.current_gen)
                                         ELSE s1.disk]]
        ELSE
        LET s2 == new_log_file(s1, s1.current_gen)
        IN  IF stop.at = "newlog_cg"
            THEN [res |-> "IoError",
                  st |-> [s2 EXCEPT !.disk = IF stop.created THEN CreateFile(s2.disk, compaction_gen)
                                             ELSE s2.disk]]
            ELSE
            Let([new_log_file(s2, compaction_gen) EXCEPT !.writer = s2.writer], LAMBDA s3 :
            Let(values_mut(s3.index), LAMBDA ks :
            Let(copy_loop(s3, compaction_gen, ks, 1,
                          IF stop.at = "copy" THEN stop.n ELSE Len(ks),
                          [res |-> "Ok", index |-> s3.index, file |-> <<>>, new_pos |-> 0]),
                LAMBDA c :
            LET onDisk(m) == [s3.disk EXCEPT ![compaction_gen] = @ \o Flushed(c.file, m)]
                s4 == [s3 EXCEPT !.index = c.index]
            IN  IF c.res # "Ok"
                THEN [res |-> c.res, st |-> [s4 EXCEPT !.disk = onDisk(2 * Len(c.file))]]
                ELSE IF stop.at \in {"copy", "flush"}
                THEN [res |-> "IoError", st |-> [s4 EXCEPT !.disk = onDisk(stop.m)]]
                ELSE
                LET s5 == [s4 EXCEPT !.disk = onDisk(2 * Len(c.file))]
                    stale_gens == stale_gens_of(s5.readers, compaction_gen)
                IN  IF stop.at = "unlink"
                    THEN [res |-> "IoError",
                          st |-> [s5 EXCEPT !.readers = @ \ (stop.gone \cup {stop.failgen}),
                                            !.disk = RemoveFiles(@, stop.gone)]]
                    ELSE [res |-> "Ok",
                          st |-> [s5 EXCEPT !.readers = @ \ stale_gens,
                                            !.disk = RemoveFiles(@, stale_gens),
                                            !.uncompacted = 0]])))

\* ---------------------------------------------------------- set and remove
\* write_all(prefix), write_all(body), flush through the positioned writer.
\* wrote = the bytes of the frame the file received: all of them, or fewer
\* when a write or the flush failed.
write_frame(st, frame, wrote) ==
    [st EXCEPT !.disk = IF wrote = 0 THEN @
                        ELSE [@ EXCEPT ![st.writer.gen] =
                                 Append(@, [frame EXCEPT !.nbytes = wrote])],
               !.writer = [@ EXCEPT !.pos = @ + wrote]]

\* An io names what the file system does during one call:
\*   wrote  bytes of the frame that reach the file when the append fails
\*          (-1: the append succeeds and the whole frame is written)
\*   stop   where the compaction the call triggers ends
NoFault == [wrote |-> -1, stop |-> Done]


\* Mutant of index_insert: an existing entry is kept.
index_insert_keep_old(idx, key, cmd_pos) ==
    IF key \in DOMAIN idx THEN idx ELSE MapPut(idx, key, cmd_pos)

\* self.index.insert(key, cmd_pos)
index_insert(idx, key, cmd_pos) == MapPut(idx, key, cmd_pos)


\* Mutant of stale_after_set: the record just written is counted, whether or
\* not it replaces one.
stale_after_set_counts_written(st, key) ==
    st.uncompacted + st.disk[st.writer.gen][Len(st.disk[st.writer.gen])].nbytes

\* Mutant of stale_after_set: the replaced record is not counted.
stale_after_set_forgets(st, key) == st.uncompacted

\* uncompacted after the insert: the replaced entry's len is added.
stale_after_set(st, key) ==
    st.uncompacted + (IF key \in DOMAIN st.index THEN st.index[key].len ELSE 0)


\* Mutant of next_sequence: the counter is not advanced.
next_sequence_reused(st) == st.current_sequence

\* self.current_sequence.unwrap_or(0) + 1
next_sequence(st) == st.current_sequence + 1

\* Mutant of needs_compaction: the threshold itself triggers.
needs_compaction_at_threshold(st) == st.uncompacted >= COMPACTION_THRESHOLD

\* if self.uncompacted > COMPACTION_THRESHOLD
needs_compaction(st) == st.uncompacted > COMPACTION_THRESHOLD

\* KvStore::set_v2: [res, st, compacted, before, appended]; before is the
\* state when compaction is decided, appended tells that bytes were written.
set_v2(st, key, value, io) ==
    LET sequence == next_sequence(st)
        s0 == [st EXCEPT !.current_sequence = sequence]
        cmd == KvsCommand_set(key, value, sequence)
        pos == s0.writer.pos
        frame == Frame(cmd)
    IN  IF io.wrote >= 0
        THEN [res |-> "IoError", st |-> write_frame(s0, frame, io.wrote),
              compacted |-> FALSE, before |-> s0, appended |-> io.wrote > 0]
        ELSE
        Let(write_frame(s0, frame, frame.nbytes), LAMBDA s1 :
        Let([s1 EXCEPT
                !.index = index_insert(s1.index, key,
                              [gen |-> s1.current_gen, pos |-> pos,
                               len |-> s1.writer.pos - pos]),
                !.uncompacted = stale_after_set(s1, key)], LAMBDA s2 :
            IF needs_compaction(s2)
            THEN Let(compact_run(s2, io.stop), LAMBDA c :
                     [res |-> c.res, st |-> c.st, compacted |-> TRUE, before |-> s2,
                      appended |-> TRUE])
            ELSE [res |-> "Ok", st |-> s2, compacted |-> FALSE, before |-> s2,
                  appended |-> TRUE]))

\* Mutant of stale_after_remove: the Remove record itself is not counted.
stale_after_remove_without_own(st, key, pos) ==
    st.uncompacted + st.index[key].len

\* uncompacted after a remove: the removed entry's len and the framed length
\* of the Remove record just written are added.
stale_after_remove(st, key, pos) ==
    st.uncompacted + st.index[key].len + (st.writer.pos - pos)

\* Mutant of remove_present: the entry of the key stays in the index.
remove_present_keeps_entry(st, key, io) ==
    LET sequence == next_sequence(st)
        s0 == [st EXCEPT !.current_sequence = sequence]
        cmd == KvsCommand_remove(key, sequence)
        pos == s0.writer.pos
        frame == Frame(cmd)
    IN  Let(write_frame(s0, frame, frame.nbytes), LAMBDA s1 :
        Let([s1 EXCEPT !.uncompacted = s1.uncompacted + s1.index[key].len
                                       + (s1.writer.pos - pos)], LAMBDA s2 :
            IF s2.uncompacted > COMPACTION_THRESHOLD
            THEN Let(compact_run(s2, io.stop), LAMBDA c :
                     [res |-> c.res, st |-> c.st, compacted |-> TRUE, before |-> s2,
                      appended |-> TRUE])
            ELSE [res |-> "Ok", st |-> s2, compacted |-> FALSE, before |-> s2,
                  appended |-> TRUE]))

\* KvStore::remove_v2 on a key of the index: [res, st, compacted, before, appended].
remove_present(st, key, io) ==
    LET sequence == next_sequence(st)
        s0 == [st EXCEPT !.current_sequence = sequence]
        cmd == KvsCommand_remove(key, sequence)
        pos == s0.writer.pos
        frame == Frame(cmd)
    IN  IF io.wrote >= 0
        THEN [res |-> "IoError", st |-> write_frame(s0, frame, io.wrote),
              compacted |-> FALSE, before |-> s0, appended |-> io.wrote > 0]
        ELSE
        Let(write_frame(s0, frame, frame.nbytes), LAMBDA s1 :
        Let([s1 EXCEPT
                !.index = MapDel(s1.index, key),
                !.uncompacted = stale_after_remove(s1, key, pos)], LAMBDA s2 :
            IF needs_compaction(s2)
            THEN Let(compact_run(s2, io.stop), LAMBDA c :
                     [res |-> c.res, st |-> c.st, compacted |-> TRUE, before |-> s2,
                      appended |-> TRUE])
            ELSE [res |-> "Ok", st |-> s2, compacted |-> FALSE, before |-> s2,
                  appended |-> TRUE]))


\* Mutant of remove_v2: the sequence number is allocated before the lookup.
remove_v2_allocates_first(st, key, io) ==
    IF key \notin DOMAIN st.index
    THEN [res |-> "KeyNotFound", st |-> [st EXCEPT !.current_sequence = @ + 1],
          compacted |-> FALSE, before |-> st, appended |-> FALSE]
    ELSE remove_present(st, key, io)

\* KvStore::remove_v2: [res, st, compacted, before, appended].
remove_v2(st, key, io) ==
    IF key \notin DOMAIN st.index
    THEN [res |-> "KeyNotFound", st |-> st, compacted |-> FALSE, before |-> st,
          appended |-> FALSE]
    ELSE remove_present(st, key, io)

\* ------------------------------------------------------------ the machine
St == [disk |-> disk, readers |-> readers, writer |-> writer, current_gen |-> current_gen,
       index |-> index, uncompacted |-> uncompacted, current_sequence |-> current_sequence]

NoWriter == [gen |-> 0, pos |-> 0]

NoSnap == [valid |-> FALSE]

NoVal == [ch |-> "", n |-> 0]

Result(op, key, res, val, compacted) ==
    [op |-> op, key |-> key, res |-> res, val |-> val, compacted |-> compacted]

\* The instance holds state st.
Install(st) ==
    /\ disk' = st.disk
    /\ opened' = TRUE
    /\ readers' = st.readers
    /\ writer' = st.writer
    /\ current_gen' = st.current_gen
    /\ index' = st.index
    /\ uncompacted' = st.uncompacted
    /\ current_sequence' = st.current_sequence

\* No instance: the store was dropped, or the process stopped.
NoInstance ==
    /\ opened' = FALSE
    /\ readers' = {}
    /\ writer' = NoWriter
    /\ current_gen' = 0
    /\ index' = EmptyMap
    /\ uncompacted' = 0
    /\ current_sequence' = 0

Init ==
    /\ disk = EmptyMap
    /\ opened = FALSE
    /\ readers = {}
    /\ writer = NoWriter
    /\ current_gen = 0
    /\ index = EmptyMap
    /\ uncompacted = 0
    /\ current_sequence = 0
    /\ ret = Result("init", NoKey, "Ok", NoVal, FALSE)
    /\ kv = [k \in Keys |-> [res |-> "None"]]
    /\ pre_index = EmptyMap
    /\ cpre = NoSnap
    /\ closed = NoSnap
    /\ appended = <<>>
    /\ open_seq = 0
    /\ opens = 0
    /\ faults = 0

\* KvStore::open(path)
Open ==
    /\ ~opened
    /\ UNCHANGED faults
    /\ opens < MaxOpen
    /\ opens' = opens + 1
    /\ LET r == open(disk)
       IN  /\ IF r.res = "Ok"
              THEN Install(r.st) /\ open_seq' = r.st.current_sequence
              ELSE NoInstance /\ disk' = disk /\ open_seq' = 0
           /\ ret' = Result("open", NoKey, r.res, NoVal, FALSE)
    /\ pre_index' = EmptyMap
    /\ cpre' = NoSnap
    /\ appended' = <<>>
    /\ UNCHANGED <<kv, closed>>

\* The history a set or remove call leaves, r its result.
Mutated(op, key, r, newval) ==
    /\ IF r.res = "panic" THEN NoInstance /\ disk' = r.st.disk ELSE Install(r.st)
    /\ ret' = Result(op, key, r.res, NoVal, r.compacted)
    /\ kv' = IF r.res = "Ok" THEN [kv EXCEPT ![key] = newval] ELSE kv
    /\ pre_index' = index
    /\ cpre' = IF r.compacted
               THEN [valid |-> TRUE, keys |-> DOMAIN r.before.index, view |-> View(r.before)]
               ELSE NoSnap
    /\ appended' = IF r.appended
                   THEN Append(appended, r.before.current_sequence)
                   ELSE appended
    /\ closed' = NoSnap
    /\ UNCHANGED <<open_seq, opens>>

\* store.set_v2(key, value), no I/O failure
Set(key, value) ==
    /\ opened
    /\ UNCHANGED faults
    /\ current_sequence < MaxSeq
    /\ \E r \in {set_v2(St, key, value, NoFault)} :
           Mutated("set", key, r, [res |-> "Some", val |-> value])

\* store.remove_v2(key), no I/O failure
Remove(key) ==
    /\ opened
    /\ UNCHANGED faults
    /\ current_sequence < MaxSeq
    /\ \E r \in {remove_v2(St, key, NoFault)} :
           Mutated("remove", key, r, [res |-> "None"])

\* store.get_v2(key)
Get(key) ==
    /\ opened
    /\ UNCHANGED faults
    /\ LET r == get_v2(St, key)
       IN  /\ ret' = Result("get", key, r.res, IF r.res = "Some" THEN r.val ELSE NoVal, FALSE)
           /\ IF r.res = "panic" THEN NoInstance /\ disk' = disk
              ELSE Install(get_v2_state(St, key))
    /\ pre_index' = index
    /\ cpre' = NoSnap
    /\ UNCHANGED <<kv, closed, appended, open_seq, opens, faults>>

\* drop(store); a process that stops between two calls leaves the same files.
Close ==
    /\ opened
    /\ UNCHANGED faults
    /\ NoInstance
    /\ closed' = [valid |-> TRUE, index |-> index, view |-> View(St),
                  uncompacted |-> uncompacted, current_sequence |-> current_sequence,
                  clean |-> (appended = <<>>)]
    /\ ret' = Result("close", NoKey, "Ok", NoVal, FALSE)
    /\ pre_index' = EmptyMap
    /\ cpre' = NoSnap
    /\ appended' = <<>>
    /\ open_seq' = 0
    /\ UNCHANGED <<disk, kv, opens>>

Next ==
    \/ Open
    \/ \E key \in Keys, value \in Values : Set(key, value)
    \/ \E key \in Keys : Remove(key)
    \/ \E key \in Keys : Get(key)
    \/ Close

Spec == Init /\ [][Next]_vars

\* ------------------------------------------- the process stops in compact
\* Where a process that stops inside compact can stop, b the state when
\* compact begins: after either file is created, after any number of whole
\* entries are copied (with any number of their writes out of the buffer),
\* after the flush, after any subset of the retired files is unlinked.
CrashStops(b) ==
    LET live == Cardinality(DOMAIN b.index)
    IN  {[Done EXCEPT !.at = a] : a \in {"newlog_cur", "newlog_cg"}}
        \cup {s \in {[Done EXCEPT !.at = "copy", !.n = n, !.m = m] :
                        n \in 0..live, m \in 0..(2 * live)} : s.m <= 2 * s.n}
        \cup {[Done EXCEPT !.at = "unlink", !.gone = G] : G \in SUBSET b.readers}

\* The files a stopped process leaves; no instance is left.
Stopped(op, key, r) ==
    /\ NoInstance
    /\ UNCHANGED faults
    /\ disk' = r.st.disk
    /\ ret' = Result(op, key, "stopped", NoVal, TRUE)
    /\ cpre' = [valid |-> TRUE, keys |-> DOMAIN r.before.index, view |-> View(r.before)]
    /\ pre_index' = EmptyMap
    /\ closed' = NoSnap
    /\ appended' = <<>>
    /\ open_seq' = 0
    /\ UNCHANGED <<kv, opens>>

\* store.set_v2(key, value) whose compaction the process does not survive
CrashInSet(key, value) ==
    /\ opened
    /\ current_sequence < MaxSeq
    /\ set_v2(St, key, value, NoFault).compacted
    /\ \E stop \in CrashStops(set_v2(St, key, value, NoFault).before) :
           \E r \in {set_v2(St, key, value, [wrote |-> -1, stop |-> stop])} :
               Stopped("crash", key, r)

\* store.remove_v2(key) whose compaction the process does not survive
CrashInRemove(key) ==
    /\ opened
    /\ current_sequence < MaxSeq
    /\ remove_v2(St, key, NoFault).compacted
    /\ \E stop \in CrashStops(remove_v2(St, key, NoFault).before) :
           \E r \in {remove_v2(St, key, [wrote |-> -1, stop |-> stop])} :
               Stopped("crash", key, r)

NextCrash ==
    \/ Next
    \/ \E key \in Keys, value \in Values : CrashInSet(key, value)
    \/ \E key \in Keys : CrashInRemove(key)

SpecCrash == Init /\ [][NextCrash]_vars

\* ------------------------------------------------ a file altered when closed
\* One payload byte of a persisted Set record changes while no instance is
\* open: a byte of the value, a byte of the key, or a byte of the checksum.
AlterPayload(item, what) ==
    IF what = "value"
    THEN [item EXCEPT !.cmd.command.value.ch = "z"]
    ELSE IF what = "key"
    THEN [item EXCEPT !.cmd.command.key = item.cmd.command.key + 1]
    ELSE [item EXCEPT !.cmd.checksum = (item.cmd.checksum + 1) % 65521]

Corrupt(gen, i, what) ==
    /\ ~opened
    /\ UNCHANGED faults
    /\ ret.op = "close"
    /\ gen \in DOMAIN disk
    /\ i \in 1..Len(disk[gen])
    /\ disk[gen][i].cmd.command.type = "Set"
    /\ disk' = [disk EXCEPT ![gen][i] = AlterPayload(@, what)]
    /\ ret' = Result("corrupt", disk[gen][i].cmd.command.key, "Ok", NoVal, FALSE)
    /\ closed' = NoSnap
    /\ UNCHANGED <<store_vars, kv, pre_index, cpre, appended, open_seq, opens, faults>>

NextCorrupt ==
    \/ Next
    \/ \E gen \in 1..(MaxOpen + 2 * MaxSeq), i \in 1..MaxSeq, what \in {"value", "key", "checksum"} :
           Corrupt(gen, i, what)

SpecCorrupt == Init /\ [][NextCorrupt]_vars

\* ------------------------------------------------- opening again and again
\* KvStore::open(path) once more, after an instance that wrote nothing was
\* dropped.
OpenAgain ==
    /\ ~opened
    /\ closed.valid /\ closed.clean
    /\ opens >= MaxOpen
    /\ opens < MaxOpen + MaxReopen
    /\ opens' = opens + 1
    /\ \E r \in {open(disk)} :
           /\ IF r.res = "Ok"
              THEN Install(r.st) /\ open_seq' = r.st.current_sequence
              ELSE NoInstance /\ disk' = disk /\ open_seq' = 0
           /\ ret' = Result("open", NoKey, r.res, NoVal, FALSE)
    /\ pre_index' = EmptyMap
    /\ cpre' = NoSnap
    /\ appended' = <<>>
    /\ UNCHANGED <<kv, closed, faults>>

NextReopen ==
    \/ Next
    \/ OpenAgain

SpecReopen == Init /\ [][NextReopen]_vars

\* ------------------------------------------- a file damaged under the store
\* A record of a log file is damaged while an instance is open: one payload
\* byte changes, or (the last record of a file) the body is cut off.
Damage(gen, i, what) ==
    /\ opened
    /\ faults < MaxFault
    /\ faults' = faults + 1
    /\ gen \in DOMAIN disk
    /\ i \in 1..Len(disk[gen])
    /\ disk[gen][i].cmd.command.type = "Set"
    /\ what = "cut" => i = Len(disk[gen])
    /\ disk' = [disk EXCEPT ![gen][i] =
                   IF what = "cut" THEN [@ EXCEPT !.nbytes = PrefixLen]
                   ELSE AlterPayload(@, what)]
    /\ ret' = Result("damage", disk[gen][i].cmd.command.key, "Ok", NoVal, FALSE)
    /\ closed' = NoSnap
    /\ UNCHANGED <<store_vars, kv, pre_index, cpre, appended, open_seq, opens>>

NextDamage ==
    \/ Next
    \/ \E gen \in 1..(MaxOpen + 2 * MaxSeq), i \in 1..MaxSeq,
          what \in {"value", "key", "checksum", "cut"} : Damage(gen, i, what)

SpecDamage == Init /\ [][NextDamage]_vars

\* ------------------------------------------- the process stops in an append
\* How many bytes of a frame can have reached the file when the process
\* stops inside write_all / flush: part of the prefix, the prefix, part of
\* the body.
TornPoints(frame) == {1, PrefixLen - 1, PrefixLen, frame.nbytes - 1}

\* The files a process leaves that stopped while it appended; r is the call
\* as far as it got.
Torn(key, r) ==
    /\ NoInstance
    /\ UNCHANGED faults
    /\ disk' = r.st.disk
    /\ ret' = Result("torn", key, "stopped", NoVal, FALSE)
    /\ cpre' = NoSnap
    /\ pre_index' = EmptyMap
    /\ closed' = NoSnap
    /\ appended' = <<>>
    /\ open_seq' = 0
    /\ UNCHANGED <<kv, opens>>

\* store.set_v2(key, value) whose append the process does not survive
TornSet(key, value) ==
    /\ opened
    /\ current_sequence < MaxSeq
    /\ \E n \in TornPoints(Frame(KvsCommand_set(key, value, next_sequence(St)))) :
           \E r \in {set_v2(St, key, value, [wrote |-> n, stop |-> Done])} : Torn(key, r)

\* store.remove_v2(key) whose append the process does not survive
TornRemove(key) ==
    /\ opened
    /\ current_sequence < MaxSeq
    /\ key \in DOMAIN index
    /\ \E n \in TornPoints(Frame(KvsCommand_remove(key, next_sequence(St)))) :
           \E r \in {remove_v2(St, key, [wrote |-> n, stop |-> Done])} : Torn(key, r)

NextTorn ==
    \/ Next
    \/ \E key \in Keys, value \in Values : TornSet(key, value)
    \/ \E key \in Keys : TornRemove(key)

SpecTorn == Init /\ [][NextTorn]_vars

\* ------------------------------------------- a malformed record in a file
\* While no instance is open a record of a log file becomes malformed: its
\* checksum or its key changes, its body becomes undecodable, its body
\* becomes a command without variant, or its body loses its end (one byte,
\* or all of it).
MalformKinds == {"checksum", "key", "garbled", "novariant", "short", "nobody"}

MalformRecord(item, what) ==
    IF what = "checksum" THEN AlterPayload(item, "checksum")
    ELSE IF what = "key" THEN AlterPayload(item, "key")
    ELSE IF what = "garbled" THEN [item EXCEPT !.cmd.command.type = "Garbled"]
    ELSE IF what = "novariant"
    THEN Frame([item.cmd EXCEPT !.command = [type |-> "None", key |-> NoKey]])
    ELSE IF what = "short" THEN [item EXCEPT !.nbytes = @ - 1]
    ELSE [item EXCEPT !.nbytes = PrefixLen]

Malform(gen, i, what) ==
    /\ ~opened
    /\ ret.op = "close"
    /\ faults < MaxFault
    /\ faults' = faults + 1
    /\ gen \in DOMAIN disk
    /\ i \in 1..Len(disk[gen])
    /\ disk' = [disk EXCEPT ![gen][i] = MalformRecord(@, what)]
    /\ ret' = Result("malform", disk[gen][i].cmd.command.key, "Ok", NoVal, FALSE)
    /\ closed' = NoSnap
    /\ UNCHANGED <<store_vars, kv, pre_index, cpre, appended, open_seq, opens>>

NextMalformed ==
    \/ Next
    \/ \E gen \in 1..(MaxOpen + 2 * MaxSeq), i \in 1..MaxSeq, what \in MalformKinds :
           Malform(gen, i, what)

SpecMalformed == Init /\ [][NextMalformed]_vars

\* ------------------------------------------------------------ I/O failures
\* How many bytes of a frame can have reached the file when its append fails.
WritePoints(frame) == {0, PrefixLen, frame.nbytes}

\* Where compact can fail with an I/O error, b the state when it begins.
FailStops(b) ==
    LET live == Cardinality(DOMAIN b.index)
    IN  {[Done EXCEPT !.at = a, !.created = c] :
            a \in {"newlog_cur", "newlog_cg"}, c \in BOOLEAN}
        \cup {s \in {[Done EXCEPT !.at = "copy", !.n = n, !.m = m] :
                        n \in 0..(live - 1), m \in 0..(2 * live)} : s.m <= 2 * s.n}
        \cup {[Done EXCEPT !.at = "flush", !.n = live, !.m = m] : m \in 0..(2 * live)}
        \cup {s \in {[Done EXCEPT !.at = "unlink", !.gone = G, !.failgen = f] :
                        G \in SUBSET b.readers, f \in b.readers} : s.failgen \notin s.gone}

\* What the file system can do during a call that fails.
Faults(frame, r) ==
    {[wrote |-> w, stop |-> Done] : w \in WritePoints(frame)}
    \cup (IF r.compacted THEN {[wrote |-> -1, stop |-> s] : s \in FailStops(r.before)} ELSE {})

\* store.set_v2(key, value) with an I/O failure
SetFail(key, value) ==
    /\ opened
    /\ faults < MaxFault
    /\ faults' = faults + 1
    /\ current_sequence < MaxSeq
    /\ \E io \in Faults(Frame(KvsCommand_set(key, value, next_sequence(St))),
                        set_v2(St, key, value, NoFault)) :
           \E r \in {set_v2(St, key, value, io)} :
               Mutated("set", key, r, [res |-> "Some", val |-> value])

\* store.remove_v2(key) with an I/O failure
RemoveFail(key) ==
    /\ opened
    /\ faults < MaxFault
    /\ faults' = faults + 1
    /\ current_sequence < MaxSeq
    /\ key \in DOMAIN index
    /\ \E io \in Faults(Frame(KvsCommand_remove(key, next_sequence(St))),
                        remove_v2(St, key, NoFault)) :
           \E r \in {remove_v2(St, key, io)} :
               Mutated("remove", key, r, [res |-> "None"])

NextFail ==
    \/ Next
    \/ \E key \in Keys, value \in Values : SetFail(key, value)
    \/ \E key \in Keys : RemoveFail(key)

SpecFail == Init /\ [][NextFail]_vars

\* ------------------------------------------------ records at the threshold
\* A value whose framed Set record is exactly as long as the compaction
\* threshold, and the value one byte longer.
EdgeValues ==
    {[ch |-> "x", n |-> COMPACTION_THRESHOLD - PrefixLen - EncodedHeaderLen - key_len(1)],
     [ch |-> "y", n |-> COMPACTION_THRESHOLD - PrefixLen - EncodedHeaderLen - key_len(1) + 1]}

\* The calls of the store with such values, I/O failures included.
NextEdge ==
    \/ Open
    \/ \E key \in Keys, value \in EdgeValues : Set(key, value)
    \/ \E key \in Keys : Remove(key)
    \/ Close
    \/ \E key \in Keys, value \in EdgeValues : SetFail(key, value)
    \/ \E key \in Keys : RemoveFail(key)

SpecEdge == Init /\ [][NextEdge]_vars

\* ------------------------------------------------- a caller that keeps setting
LiveValues == {[ch |-> "x", n |-> HalfLen], [ch |-> "y", n |-> BigLen]}

\* store.set_v2(key, value), no I/O failure, with values of 512 KiB and more
SetLive(key, value) ==
    /\ opened
    /\ UNCHANGED faults
    /\ current_sequence < MaxSeqLive
    /\ \E r \in {set_v2(St, key, value, NoFault)} :
           Mutated("set", key, r, [res |-> "Some", val |-> value])

\* set on a key that is already in the index
Overwrite == \E key \in DOMAIN index, value \in LiveValues : SetLive(key, value)

NextLive ==
    \/ Open
    \/ \E key \in Keys, value \in LiveValues : SetLive(key, value)

\* The caller keeps overwriting as long as it can.
SpecLive == Init /\ [][NextLive]_vars /\ WF_vars(Overwrite)

\* ================================================================= claims
\* What the last get returned, in the shape of kv.
GetResult == IF ret.res = "Some" THEN [res |-> "Some", val |-> ret.val] ELSE [res |-> ret.res]

\* A Remove record of key k is in some log file.
RemoveOnDisk(k) ==
    \E g \in DOMAIN disk : \E i \in 1..Len(disk[g]) :
        disk[g][i].cmd.command.type = "Remove" /\ disk[g][i].cmd.command.key = k

\* C1: after any sequence of successful set and remove calls, compactions
\* included, get(k) returns Some(v) for the v of the last set(k, _) that no
\* remove(k) follows, and None if k was never set or was last removed.
C1_GetReturnsLastSet ==
    ret.op = "get" => GetResult = kv[ret.key]

\* C1 witness: a get of an overwritten key, answered from a record that a
\* compaction of this instance has moved.
C1_Witness ==
    /\ ret.op = "get" /\ ret.res = "Some" /\ opens = 1
    /\ index[ret.key].gen # current_gen
    /\ current_sequence >= 2

\* C2: dropping the store and opening the directory again gives, for every
\* key, the get result it had just before the drop; a removed key stays absent.
C2_PersistAcrossClose ==
    (ret.op = "open" /\ closed.valid) => (ret.res = "Ok" /\ View(St) = closed.view)

\* C2 witness: a reopened store with a live key and a key removed before the close.
C2_Witness ==
    /\ ret.op = "open" /\ closed.valid /\ ret.res = "Ok"
    /\ \E k \in Keys : closed.view[k].res = "Some"
    /\ \E k \in Keys : RemoveOnDisk(k) /\ closed.view[k].res = "None"

\* C3: open rebuilds by replay exactly the index that was in memory after the
\* last completed set or remove: the same keys with the same {gen, pos, len},
\* also when that last call compacted.
C3_ExactIndexRecovery ==
    (ret.op = "open" /\ closed.valid) => (ret.res = "Ok" /\ index = closed.index)

\* C3 witness: a reopen after a compaction (generation 1 is retired) with a
\* live key in the compaction file.
C3_Witness ==
    /\ ret.op = "open" /\ closed.valid /\ 1 \notin DOMAIN disk
    /\ \E k \in DOMAIN index : index[k].pos > 0

\* C5: right after a compaction the index has the same keys and every key
\* the same get result as right before it, on this instance and after a
\* drop and reopen.
C5_CompactionPreservesLiveState ==
    (ret.compacted /\ ret.res = "Ok") =>
        /\ DOMAIN index = cpre.keys
        /\ View(St) = cpre.view
        /\ LET r == open(disk)
           IN  r.res = "Ok" /\ View(r.st) = cpre.view /\ DOMAIN r.st.index = cpre.keys

\* C5 witness: a compaction that carried two live keys over.
C5_Witness ==
    /\ ret.compacted /\ ret.res = "Ok"
    /\ Cardinality(DOMAIN index) = 2
    /\ \A k \in DOMAIN index : cpre.view[k].res = "Some"

\* C7: remove of a key that is not in the index returns KeyNotFound and
\* changes nothing: no file, no sequence number, not the index, not
\* uncompacted; no compaction runs and get of the key still returns None.
C7_RemoveAbsentChangesNothing ==
    [][(opened /\ ret'.op = "remove" /\ ret'.key \notin DOMAIN index) =>
          /\ ret'.res = "KeyNotFound"
          /\ ~ret'.compacted
          /\ UNCHANGED <<disk, opened, readers, writer, current_gen, index,
                         uncompacted, current_sequence>>
          /\ get_v2(St, ret'.key).res = "None"]_vars

\* C7 witness: remove of an absent key has returned, on a store that holds
\* another key and has allocated sequence numbers.
C7_Witness ==
    /\ ret.op = "remove" /\ ret.res = "KeyNotFound"
    /\ index # EmptyMap /\ current_sequence > 0

\* Every record in every file is whole.
WholeRecords(d) ==
    \A g \in DOMAIN d : \A i \in 1..Len(d[g]) : d[g][i].nbytes = PrefixLen + d[g][i].prefix

\* C4: if the process stops inside compact (after creating either file, after
\* copying any number of whole records into the compaction file, after the
\* flush, after unlinking any subset of the retired files), open on the
\* directory succeeds and get returns for every key what it returned right
\* before the compaction began.
C4_InterruptedCompactionRecoverable ==
    (ret.op = "crash" /\ WholeRecords(disk)) =>
        LET r == open(disk)
        IN  r.res = "Ok" /\ View(r.st) = cpre.view

\* C4 again, counting also the stops at which the compaction writer's buffer
\* has passed only part of a record to the file.
C4_AnyBufferedPrefix ==
    ret.op = "crash" =>
        LET r == open(disk)
        IN  r.res = "Ok" /\ View(r.st) = cpre.view

\* C8: whenever set or remove returns an error, the index is the index the
\* call began with.
C8_FailedMutationKeepsIndex ==
    (opened /\ ret.op \in {"set", "remove"} /\ ret.res # "Ok") => index = pre_index

\* C9: after a payload byte of a persisted Set record of key k is altered
\* while the store is closed, open succeeds and get(k) returns CorruptedData.
C9_ChecksumDetectedOnGet ==
    ret.op = "corrupt" =>
        LET r == open(disk)
        IN  r.res = "Ok" /\ get_v2(r.st, ret.key).res = "CorruptedData"

\* C10: the sequence numbers of the records one instance appends are
\* strictly increasing and all greater than the highest one found at open,
\* also after calls that failed.
C10_SequenceIncreasesInInstance ==
    /\ \A i \in 1..Len(appended) : appended[i] > open_seq
    /\ \A i \in 1..(Len(appended) - 1) : appended[i] < appended[i + 1]

\* C10 witness: an instance that found records at open has appended one,
\* after a call that failed had consumed the number before it.
C10_Witness ==
    /\ open_seq > 0
    /\ faults > 0
    /\ Len(appended) >= 1
    /\ appended[1] > open_seq + 1

\* C6: a caller that keeps calling set on keys of the index eventually
\* triggers a compaction (checked from every state that leaves room for
\* MaxKey + 1 more calls below MaxSeqLive).
C6_OverwritesLeadToCompaction ==
    (opened /\ index # EmptyMap /\ current_sequence + MaxKey + 1 <= MaxSeqLive)
        ~> ret.compacted

\* C6 witness: an overwrite has triggered a compaction although the record it
\* replaced is smaller than the threshold.
C6_Witness ==
    /\ ret.op = "set" /\ ret.compacted
    /\ ret.key \in DOMAIN pre_index
    /\ pre_index[ret.key].len < COMPACTION_THRESHOLD
    /\ uncompacted = 0

\* C11: over the lifetime of a directory, across drops, reopens and
\* compactions, a record a call writes carries a sequence number greater than
\* that of every record written before; here for the first record an instance
\* writes and the records of the instance before it (closed.current_sequence
\* is the highest number that instance wrote or found).
C11_SequenceNeverReusedAcrossReopen ==
    [][(opened /\ closed.valid /\ appended = <<>> /\ Len(appended') = 1) =>
          appended'[1] > closed.current_sequence]_vars

\* The index entry of key k addresses one whole framed record of an existing
\* file: it starts at pos and is len bytes long.
AddressesWholeRecord(k) ==
    LET e == index[k]
    IN  /\ e.gen \in DOMAIN disk
        /\ e.gen \in readers
        /\ LET i == RecordAt(disk[e.gen], e.pos)
           IN  /\ i # 0
               /\ disk[e.gen][i].nbytes = e.len
               /\ disk[e.gen][i].nbytes = PrefixLen + disk[e.gen][i].prefix

\* The record the index entry of key k addresses.
AddressedRecord(k) == disk[index[k].gen][RecordAt(disk[index[k].gen], index[k].pos)]

\* C12: in every state reached without failures, every index entry
\* k -> {gen, pos, len} addresses one whole framed record of the existing file
\* gen.log, starting at pos and len bytes long, and that record is a Set of
\* key k with the value of the most recent set(k, _); get never returns
\* UnexpectedCommandType.
C12_IndexEntriesAddressLiveSets ==
    opened =>
        \A k \in DOMAIN index :
            /\ AddressesWholeRecord(k)
            /\ AddressedRecord(k).cmd.command.type = "Set"
            /\ AddressedRecord(k).cmd.command.key = k
            /\ kv[k] = [res |-> "Some", val |-> AddressedRecord(k).cmd.command.value]
            /\ get_v2(St, k).res # "UnexpectedCommandType"

\* C12 witness: right after a compaction an entry addresses a record of the
\* compaction file that does not start the file.
C12_Witness ==
    /\ opened /\ ret.compacted /\ ret.res = "Ok"
    /\ \E k \in DOMAIN index : index[k].gen = current_gen - 1 /\ index[k].pos > 0

\* The records of the files of the given generations, file after file.
RECURSIVE ConcatFiles(_, _)
ConcatFiles(d, gens) ==
    IF gens = <<>> THEN <<>> ELSE d[Head(gens)] \o ConcatFiles(d, Tail(gens))

\* All records of the directory in replay order: generation ascending, then
\* offset ascending.
ReplayOrder(d) == ConcatFiles(d, sorted_gen_list(d))

\* The last record of key k in replay order is a Set.
LatestIsSet(d, k) ==
    LET all == ReplayOrder(d)
        S == {i \in 1..Len(all) : all[i].cmd.command.key = k}
    IN  \E i \in S : (\A j \in S : j <= i) /\ all[i].cmd.command.type = "Set"

\* C13: in every state reached without failures, the index contains key k
\* exactly if the last record of k in the log files, in replay order, is a
\* Set; a key whose latest record is a Remove is not in the index.
C13_IndexHoldsExactlyLiveKeys ==
    opened => \A k \in Keys : (k \in DOMAIN index) <=> LatestIsSet(disk, k)

\* C13 witness: a remove has returned without compacting, its Remove record
\* is the key's latest record, and another key is live.
C13_Witness ==
    /\ opened /\ ret.op = "remove" /\ ret.res = "Ok" /\ ~ret.compacted
    /\ RemoveOnDisk(ret.key) /\ ~LatestIsSet(disk, ret.key)
    /\ index # EmptyMap

\* C14: a call get(k), whatever it returns (a value, None, CorruptedData, a
\* decode or an I/O error), leaves the index, uncompacted, the sequence
\* counter, the current generation and every log file unchanged, and get of
\* every other key returns after it what it returned before it.
C14_GetChangesNothing ==
    [][(opened /\ ret'.op = "get") =>
          /\ UNCHANGED <<disk, index, uncompacted, current_sequence, current_gen>>
          /\ opened'
          /\ \A k \in Keys \ {ret'.key} : get_v2(St', k) = get_v2(St, k)]_vars

\* C14 witness: get of a key returned an error while another key reads fine.
C14_Witness ==
    /\ opened /\ ret.op = "get"
    /\ ret.res \in {"CorruptedData", "IoError", "Deserialize"}
    /\ \E k \in Keys \ {ret.key} : get_v2(St, k).res = "Some"

\* C15: opening a directory again after an instance that called no set and no
\* remove was dropped gives the same key -> value mapping, the same
\* {gen, pos, len} for every key, the same uncompacted and the same sequence
\* counter as that instance had, although each open adds an empty file.
C15_OpenIsIdempotent ==
    (ret.op = "open" /\ closed.valid /\ closed.clean) =>
        /\ ret.res = "Ok"
        /\ View(St) = closed.view
        /\ index = closed.index
        /\ uncompacted = closed.uncompacted
        /\ current_sequence = closed.current_sequence

\* C15 witness: the third open of a directory that holds a live key and stale
\* bytes, the second instance having written nothing.
C15_Witness ==
    /\ ret.op = "open" /\ ret.res = "Ok" /\ closed.valid /\ closed.clean
    /\ opens > MaxOpen
    /\ index # EmptyMap /\ uncompacted > 0

RECURSIVE TotalBytes(_, _)
TotalBytes(d, gens) ==
    IF gens = {} THEN 0
    ELSE LET g == CHOOSE x \in gens : TRUE
         IN  FileSize(d[g]) + TotalBytes(d, gens \ {g})

\* The sum of len over the entries of the keys ks of an index.
RECURSIVE IndexBytes(_, _)
IndexBytes(idx, ks) ==
    IF ks = {} THEN 0
    ELSE LET k == CHOOSE x \in ks : TRUE
         IN  idx[k].len + IndexBytes(idx, ks \ {k})

\* The records of file gen that no index entry addresses: overwritten or
\* removed Set records and Remove records.
StaleRecords(d, idx, gen) ==
    {i \in 1..Len(d[gen]) :
        ~\E k \in DOMAIN idx : idx[k].gen = gen /\ idx[k].pos = Offset(d[gen], i)}

RECURSIVE SumFrames(_, _)
SumFrames(file, is) ==
    IF is = {} THEN 0
    ELSE LET i == CHOOSE x \in is : TRUE
         IN  file[i].nbytes + SumFrames(file, is \ {i})

\* The summed framed length of the stale records of the given generations.
RECURSIVE StaleBytes(_, _, _)
StaleBytes(d, idx, gens) ==
    IF gens = {} THEN 0
    ELSE LET g == CHOOSE x \in gens : TRUE
         IN  SumFrames(d[g], StaleRecords(d, idx, g)) + StaleBytes(d, idx, gens \ {g})

C19_CompactionGenerations ==
    [][(opened /\ ret'.op \in {"set", "remove"} /\ ret'.res = "Ok" /\ ret'.compacted) =>
          LET g == current_gen
          IN  /\ current_gen' = g + 2
              /\ writer'.gen = g + 2
              /\ readers' = {g + 1, g + 2}
              /\ DOMAIN disk' = {g + 1, g + 2}
              /\ \A k \in DOMAIN index' : index'[k].gen = g + 1
              /\ disk'[g + 2] = <<>>
              /\ uncompacted' = 0]_vars

\* ------------------------------------------ layout of the compaction file
\* C20: after a compact that succeeds, started with current generation g,
\* the file g + 1 is the sequence, in ascending key order, of the frames of
\* the live keys as they were in the logs (the frame the call itself wrote
\* for the key of a set); the index entry of the i-th key is
\* {g + 1, pos, len} with pos 0 for the first, pos = previous pos + previous
\* len for the others, len the frame's length, and the lens sum up to the
\* size of the file.
C20_CompactionFileLayout ==
    [][(opened /\ ret'.op \in {"set", "remove"} /\ ret'.res = "Ok" /\ ret'.compacted) =>
          LET g == current_gen
              ks == SortedSeq(DOMAIN index')
              file == disk'[g + 1]
              written(k) == IF ret'.op = "set" /\ k = ret'.key
                            THEN Frame(KvsCommand_set(k, kv'[k].val, current_sequence + 1))
                            ELSE AddressedRecord(k)
          IN  /\ Len(file) = Len(ks)
              /\ \A i \in 1..Len(ks) :
                    /\ file[i] = written(ks[i])
                    /\ index'[ks[i]].gen = g + 1
                    /\ index'[ks[i]].len = PrefixLen + file[i].prefix
                    /\ index'[ks[i]].pos =
                          IF i = 1 THEN 0
                          ELSE index'[ks[i - 1]].pos + index'[ks[i - 1]].len
              /\ IndexBytes(index', DOMAIN index') = FileSize(file)]_vars

\* C20 case: a compaction has copied two live keys, and the key that comes
\* first in the compaction file was written to the logs last.
C20_Witness ==
    /\ opened /\ ret.op \in {"set", "remove"} /\ ret.res = "Ok" /\ ret.compacted
    /\ Cardinality(DOMAIN index) = 2
    /\ \E j, k \in DOMAIN index :
          /\ j < k
          /\ index[j].pos = 0 /\ index[k].pos = index[j].len
          /\ AddressedRecord(j).cmd.sequence_number > AddressedRecord(k).cmd.sequence_number

\* ------------------------------------------------- the current generation
\* C21: an open that succeeds picks current_gen = the highest generation of
\* the directory + 1, or 1 if there is none, and creates its file, new and
\* empty; after open and after every set or remove that returns Ok (with or
\* without a compaction), current_gen is greater than every other generation
\* of the registry and of the directory, and the writer's pos is the size of
\* the file of current_gen.
C21_CurrentGeneration ==
    [][/\ (ret'.op = "open" /\ ret'.res = "Ok") =>
             /\ current_gen' = IF DOMAIN disk = {} THEN 1
                               ELSE 1 + CHOOSE g \in DOMAIN disk : \A h \in DOMAIN disk : h <= g
             /\ current_gen' \notin DOMAIN disk
             /\ disk' = MapPut(disk, current_gen', <<>>)
       /\ (opened' /\ ret'.op \in {"open", "set", "remove"} /\ ret'.res = "Ok") =>
             /\ \A g \in (readers' \cup DOMAIN disk') \ {current_gen'} : g < current_gen'
             /\ current_gen' \in DOMAIN disk'
             /\ writer'.pos = FileSize(disk'[current_gen'])]_vars

\* C21 case: an instance that opened a directory holding generations 2 and 3
\* has appended a record to its current generation.
C21_Witness ==
    /\ opened /\ opens = 2 /\ ret.op = "set" /\ ret.res = "Ok" /\ ~ret.compacted
    /\ current_gen = 4 /\ DOMAIN disk = {2, 3, 4}
    /\ writer.pos > 0

\* ------------------------------------------------------ malformed records
\* The record has a checksum mismatch, an undecodable body, no command
\* variant, or a body shorter than its length prefix.
BadRecord(item) ==
    \/ item.cmd.command.type \in {"Garbled", "None"}
    \/ /\ item.cmd.command.type \in {"Set", "Remove"}
       /\ item.cmd.checksum # calculate_checksum(item.cmd.command)
    \/ item.nbytes >= PrefixLen /\ item.nbytes < PrefixLen + item.prefix

BadRecords(d) == {p \in {<<g, i>> : g \in DOMAIN d, i \in 1..MaxSeq} :
                     p[2] <= Len(d[p[1]]) /\ BadRecord(d[p[1]][p[2]])}

PartialTail(d) ==
    \E g \in DOMAIN d :
        /\ d[g] # <<>>
        /\ LET last == d[g][Len(d[g])]
           IN  last.nbytes > 0 /\ last.nbytes < PrefixLen + last.prefix

\* C23: if a log file ends with a partially written record, from 1 byte of
\* the length prefix up to all but the last byte of the body, open returns an
\* error.
C23_PartialTailFailsOpen ==
    (ret.op = "open" /\ PartialTail(disk)) => ret.res # "Ok"

\* ------------------------------------------------------- append-only files
\* C24: a set or remove that returns Ok without compacting appends exactly
\* one framed record of its key to the end of the file of the current
\* generation and changes no other file and no byte written before; open
\* and get, and set and remove when they do not compact, delete no file (open
\* only adds the new, empty current file); a file whose generation is not
\* the current one is never written.
C24_AppendOnly ==
    [][/\ (opened /\ ret'.op \in {"set", "remove"} /\ ret'.res = "Ok" /\ ~ret'.compacted) =>
             /\ DOMAIN disk' = DOMAIN disk
             /\ \A g \in DOMAIN disk \ {current_gen} : disk'[g] = disk[g]
             /\ Len(disk'[current_gen]) = Len(disk[current_gen]) + 1
             /\ SubSeq(disk'[current_gen], 1, Len(disk[current_gen])) = disk[current_gen]
             /\ LET rec == disk'[current_gen][Len(disk'[current_gen])]
                IN  /\ rec.nbytes = PrefixLen + rec.prefix
                    /\ rec.cmd.command.key = ret'.key
                    /\ rec.cmd.command.type = IF ret'.op = "set" THEN "Set" ELSE "Remove"
       /\ (ret'.op \in {"open", "get"} \/ (ret'.op \in {"set", "remove"} /\ ~ret'.compacted)) =>
             DOMAIN disk \subseteq DOMAIN disk'
       /\ (ret'.op = "open" /\ ret'.res = "Ok") =>
             \A g \in DOMAIN disk' \ DOMAIN disk : g = current_gen' /\ disk'[g] = <<>>
       /\ (ret'.op = "get" \/ (ret'.op = "open" /\ ret'.res # "Ok")) => disk' = disk
       /\ ret'.op \in {"open", "get", "set", "remove"} =>
             \A g \in DOMAIN disk \cap DOMAIN disk' :
                 (~opened \/ g # current_gen) => disk'[g] = disk[g]]_vars

\* ------------------------------------------------- registry and index
\* No call has hit the 'Cannot find log reader' panic.
NoReaderPanic == ret.res # "panic"

\* C25: in every reachable state, also after a set, remove or compact call
\* returned an I/O error, every index entry's gen is in the reader registry
\* and the entry addresses a whole record of the file of that generation,
\* and no get or compact hits the 'Cannot find log reader' panic.
C25_RegistryCoversIndex ==
    /\ NoReaderPanic
    /\ opened => \A k \in DOMAIN index : AddressesWholeRecord(k)

\* --------------------------------------------- replay order and write order
\* C26: in every state reached without failures, across compactions and
\* reopenings, of two records of the same key in the log files the one later
\* in replay order (higher generation, or same generation and higher offset)
\* has the greater sequence number; the file appended to is the one replayed
\* last, so a record appended after a compaction is replayed after the
\* records of the compaction file.
C26_ReplayOrderIsWriteOrder ==
    /\ LET all == ReplayOrder(disk)
       IN  \A i, j \in 1..Len(all) :
               (i < j /\ all[i].cmd.command.key = all[j].cmd.command.key) =>
                   all[i].cmd.sequence_number < all[j].cmd.sequence_number
    /\ opened => \A g \in DOMAIN disk : g <= writer.gen

\* C26 case: an instance that opened a directory left by a compaction has
\* appended a record of a key whose earlier record is in the compaction file.
C26_Witness ==
    /\ opened /\ opens = 2 /\ ret.op = "set" /\ ret.res = "Ok" /\ ~ret.compacted
    /\ \E g \in DOMAIN disk :
          /\ g < current_gen /\ disk[g] # <<>> /\ disk[current_gen] # <<>>
          /\ disk[g][1].cmd.command.key = disk[current_gen][1].cmd.command.key
          /\ current_gen = g + 2

\* ------------------------------------------------- framing of long bodies
\* Byte lengths up to usize are kept as two digits in base 2^16 times 2^16:
\* the length is hi * WideBase + lo, and 2^32 is [hi |-> WideBase, lo |-> 0].
WideBase == 65536

Wide(n) == [hi |-> n \div WideBase, lo |-> n % WideBase]

WideSum(a, b) ==
    [hi |-> a.hi + b.hi + ((a.lo + b.lo) \div WideBase), lo |-> (a.lo + b.lo) % WideBase]

\* The key and value lengths a caller can pass: around 0, 2^16, 2^32 - 2^16
\* and 2^32.
WideLens == {[hi |-> h, lo |-> l] : h \in {0, 1, WideBase - 1, WideBase, WideBase + 1},
                                    l \in {0, 1, WideBase - 1}}

\* `cmd_bytes.len() as u32`: the low 32 bits.
usize_as_u32(w) == [hi |-> w.hi % WideBase, lo |-> w.lo]

\* The lengths of the frame set_v2 (remove_v2) writes for a key of klen
\* bytes (and a value of vlen bytes): the value of the prefix, the length of
\* the body written after it, and the len the index records
\* (self.writer.pos - pos).
frame_lengths(op, klen, vlen) ==
    LET body == WideSum(Wide(EncodedHeaderLen), IF op = "set" THEN WideSum(klen, vlen) ELSE klen)
    IN  [prefix |-> usize_as_u32(body),
         body |-> body,
         len |-> WideSum(Wide(PrefixLen), body)]

\* A call is chosen; nothing is open.
InitWide ==
    /\ disk = EmptyMap
    /\ opened = FALSE
    /\ readers = {}
    /\ writer = NoWriter
    /\ current_gen = 0
    /\ index = EmptyMap
    /\ uncompacted = 0
    /\ current_sequence = 0
    /\ \E op \in {"set", "remove"}, klen \in WideLens, vlen \in WideLens :
           ret = [op |-> op, res |-> "call", klen |-> klen,
                  vlen |-> IF op = "set" THEN vlen ELSE Wide(0)]
    /\ kv = [k \in Keys |-> [res |-> "None"]]
    /\ pre_index = EmptyMap
    /\ cpre = NoSnap
    /\ closed = NoSnap
    /\ appended = <<>>
    /\ open_seq = 0
    /\ opens = 0
    /\ faults = 0

\* The frame of the call is written.
WriteWide ==
    /\ ret.res = "call"
    /\ ret' = [ret EXCEPT !.res = "framed"] @@ frame_lengths(ret.op, ret.klen, ret.vlen)
    /\ UNCHANGED <<disk, store_vars, kv, pre_index, cpre, closed, appended, open_seq, opens,
                   faults>>

NextWide == WriteWide

SpecWide == InitWide /\ [][NextWide]_vars

\* C27: for every body length the caller can produce, 2^32 bytes and more
\* included, the length prefix set and remove write equals the length of the
\* body written after it, and the len the index records is 4 + the prefix.
C27_PrefixIsBodyLength ==
    ret.res = "framed" =>
        /\ ret.prefix = ret.body
        /\ ret.len = WideSum(Wide(PrefixLen), ret.prefix)

====
